---- MODULE Spec2Model ----
(***************************************************************************)
(* Rule L036 of sqlfluff: "Select targets should be on a new line unless   *)
(* there is only one select target."                                       *)
(*                                                                         *)
(* The rule is a pure function of one parse-tree node.  The model keeps    *)
(* the node under the crawler (segment), the summary _get_indexes computed *)
(* for it (eval_result), the value _eval returned (result), and the        *)
(* lint -> fix -> re-lint loop of the surrounding linter that applies the  *)
(* proposed fix to the node and evaluates the rule again.                  *)
(*                                                                         *)
(* Indexes are Python indexes: zero-based, -1 for "not found".  A node     *)
(* reference held by the rule (an element of select_targets, the anchor of *)
(* a LintFix) is modelled by the node's index among the clause's children. *)
(***************************************************************************)
EXTENDS Integers, Sequences, FiniteSets

VARIABLES segment, eval_result, result, pc, last_fix, initial, steps

vars == <<segment, eval_result, result, pc, last_fix, initial, steps>>

\* Largest number of direct children of a node the crawler starts on.
MaxLen == 4

\* The value the scan gives an index it has not found.
NotFound == -1

(***************************************************************************)
(* Parse-tree nodes.  A node has a type tag, a name and child segments;    *)
(* of the children of a select target only the type tags matter.           *)
(***************************************************************************)
Leaf(type, name) == [type |-> type, name |-> name, segments |-> <<>>]

SelectKeyword == Leaf("keyword", "SELECT")

DistinctKeyword == Leaf("keyword", "DISTINCT")

NewlineSegment == Leaf("newline", "newline")

WhitespaceSegment == Leaf("whitespace", "whitespace")

CommaSegment == Leaf("comma", "comma")

ColumnTarget ==
    [type |-> "select_target_element", name |-> "select_target_element",
     segments |-> <<"column_reference">>]

WildcardTarget ==
    [type |-> "select_target_element", name |-> "select_target_element",
     segments |-> <<"wildcard_expression">>]

Children ==
    {SelectKeyword, DistinctKeyword, NewlineSegment, WhitespaceSegment,
     CommaSegment, ColumnTarget, WildcardTarget}

SegmentTypes == {"select_clause", "select_statement"}

SeqsUpTo(S, n) == UNION {[1..k -> S] : k \in 0..n}

\* seg.is_type(t)
is_type(seg, t) == seg.type = t

\* segs[i] for a Python index i
At(segs, i) == segs[i + 1]

(***************************************************************************)
(* _get_indexes: one forward pass over segment.segments.                   *)
(***************************************************************************)
EmptyResult ==
    [cnt_select_targets |-> 0,
     select_idx |-> NotFound,
     first_new_line_idx |-> NotFound,
     first_select_target_idx |-> NotFound,
     first_whitespace_idx |-> NotFound,
     select_targets |-> <<>>]

\* ScanSegment with the "first_new_line_idx == -1" test left out, so that the
\* index of the last newline is kept instead of the first.
ScanSegment_every_newline(acc, fname_idx, seg) ==
    LET a1 == IF is_type(seg, "select_target_element")
              THEN [acc EXCEPT
                      !.select_targets = Append(@, fname_idx),
                      !.cnt_select_targets = @ + 1,
                      !.first_select_target_idx =
                          IF @ = NotFound THEN fname_idx ELSE @]
              ELSE acc
        a2 == IF is_type(seg, "keyword") /\ seg.name = "SELECT"
                 /\ a1.select_idx = NotFound
              THEN [a1 EXCEPT !.select_idx = fname_idx]
              ELSE a1
        a3 == IF is_type(seg, "newline")
              THEN [a2 EXCEPT !.first_new_line_idx = fname_idx]
              ELSE a2
        a4 == IF is_type(seg, "whitespace")
                 /\ a3.first_new_line_idx # NotFound
                 /\ a3.first_whitespace_idx = NotFound
              THEN [a3 EXCEPT !.first_whitespace_idx = fname_idx]
              ELSE a3
    IN a4

\* ScanSegment with the "first_new_line_idx != -1" test left out of the
\* whitespace branch, so that whitespace before the first newline counts.
ScanSegment_any_whitespace(acc, fname_idx, seg) ==
    LET a1 == IF is_type(seg, "select_target_element")
              THEN [acc EXCEPT
                      !.select_targets = Append(@, fname_idx),
                      !.cnt_select_targets = @ + 1,
                      !.first_select_target_idx =
                          IF @ = NotFound THEN fname_idx ELSE @]
              ELSE acc
        a2 == IF is_type(seg, "keyword") /\ seg.name = "SELECT"
                 /\ a1.select_idx = NotFound
              THEN [a1 EXCEPT !.select_idx = fname_idx]
              ELSE a1
        a3 == IF is_type(seg, "newline") /\ a2.first_new_line_idx = NotFound
              THEN [a2 EXCEPT !.first_new_line_idx = fname_idx]
              ELSE a2
        a4 == IF is_type(seg, "whitespace")
                 /\ a3.first_whitespace_idx = NotFound
              THEN [a3 EXCEPT !.first_whitespace_idx = fname_idx]
              ELSE a3
    IN a4

\* The body of the for loop, for child seg at index fname_idx.
ScanSegment(acc, fname_idx, seg) ==
    LET a1 == IF is_type(seg, "select_target_element")
              THEN [acc EXCEPT
                      !.select_targets = Append(@, fname_idx),
                      !.cnt_select_targets = @ + 1,
                      !.first_select_target_idx =
                          IF @ = NotFound THEN fname_idx ELSE @]
              ELSE acc
        a2 == IF is_type(seg, "keyword") /\ seg.name = "SELECT"
                 /\ a1.select_idx = NotFound
              THEN [a1 EXCEPT !.select_idx = fname_idx]
              ELSE a1
        a3 == IF is_type(seg, "newline") /\ a2.first_new_line_idx = NotFound
              THEN [a2 EXCEPT !.first_new_line_idx = fname_idx]
              ELSE a2
        a4 == IF is_type(seg, "whitespace")
                 /\ a3.first_new_line_idx # NotFound
                 /\ a3.first_whitespace_idx = NotFound
              THEN [a3 EXCEPT !.first_whitespace_idx = fname_idx]
              ELSE a3
    IN a4

RECURSIVE ScanFrom(_, _, _)
ScanFrom(segs, fname_idx, acc) ==
    IF fname_idx >= Len(segs)
    THEN acc
    ELSE ScanFrom(segs, fname_idx + 1,
                  ScanSegment(acc, fname_idx, At(segs, fname_idx)))

_get_indexes(seg) == ScanFrom(seg.segments, 0, EmptyResult)

(***************************************************************************)
(* The values _eval returns: None, or a LintResult with an anchor and a    *)
(* list of fixes.                                                          *)
(***************************************************************************)
None == [kind |-> "None"]

\* LintFix(edit_type, anchor, edit=None)
LintFix(edit_type, anchor, edit) ==
    [edit_type |-> edit_type, anchor |-> anchor, edit |-> edit]

LintResult(anchor, fixes) ==
    [kind |-> "LintResult", anchor |-> anchor, fixes |-> fixes]

\* make_newline: the newline segment the "create" fix inserts.
make_newline == NewlineSegment

\* _eval_multiple_select_target_elements anchoring the fix at the last select
\* target instead of the first.
_eval_multiple_last_target(er, seg) ==
    IF er.first_new_line_idx = NotFound
    THEN LintResult(seg, <<LintFix("create",
                                   er.select_targets[Len(er.select_targets)],
                                   make_newline)>>)
    ELSE None

\* _eval_multiple_select_target_elements testing first_whitespace_idx where
\* the code tests first_new_line_idx.
_eval_multiple_whitespace_idx(er, seg) ==
    IF er.first_whitespace_idx = NotFound
    THEN LintResult(seg, <<LintFix("create", er.select_targets[1], make_newline)>>)
    ELSE None

\* _eval_multiple_select_target_elements
_eval_multiple_select_target_elements(er, seg) ==
    IF er.first_new_line_idx = NotFound
    THEN LintResult(seg, <<LintFix("create", er.select_targets[1], make_newline)>>)
    ELSE None

\* is_wildcard looking for the wildcard_expression among the children of the
\* clause instead of the children of its select targets.
is_wildcard_direct_children(select_clause) ==
    \E i \in 1..Len(select_clause.segments) :
        is_type(select_clause.segments[i], "wildcard_expression")

\* The nested loops that look for a wildcard_expression among the children
\* of the select_target_element children of the clause.
is_wildcard(select_clause) ==
    \E i \in 1..Len(select_clause.segments) :
        /\ is_type(select_clause.segments[i], "select_target_element")
        /\ \E j \in 1..Len(select_clause.segments[i].segments) :
               select_clause.segments[i].segments[j] = "wildcard_expression"

\* _eval_single_select_target_element deleting the segment at
\* first_whitespace_idx instead of the one at first_new_line_idx.
_eval_single_delete_whitespace(er, select_clause) ==
    IF is_wildcard(select_clause)
    THEN None
    ELSE IF /\ er.select_idx < er.first_new_line_idx
            /\ er.first_new_line_idx < er.first_select_target_idx
         THEN LintResult(select_clause,
                         <<LintFix("delete", er.first_whitespace_idx, None)>>)
         ELSE None

\* _eval_single_select_target_element deleting the select target.
_eval_single_delete_target(er, select_clause) ==
    IF is_wildcard(select_clause)
    THEN None
    ELSE IF /\ er.select_idx < er.first_new_line_idx
            /\ er.first_new_line_idx < er.first_select_target_idx
         THEN LintResult(select_clause,
                         <<LintFix("delete", er.first_select_target_idx, None)>>)
         ELSE None

\* _eval_single_select_target_element deleting the segment before the newline.
_eval_single_delete_previous(er, select_clause) ==
    IF is_wildcard(select_clause)
    THEN None
    ELSE IF /\ er.select_idx < er.first_new_line_idx
            /\ er.first_new_line_idx < er.first_select_target_idx
         THEN LintResult(select_clause,
                         <<LintFix("delete", er.first_new_line_idx - 1, None)>>)
         ELSE None

\* _eval_single_select_target_element
_eval_single_select_target_element(er, select_clause) ==
    IF is_wildcard(select_clause)
    THEN None
    ELSE IF /\ er.select_idx < er.first_new_line_idx
            /\ er.first_new_line_idx < er.first_select_target_idx
         THEN LintResult(select_clause,
                         <<LintFix("delete", er.first_new_line_idx, None)>>)
         ELSE None

\* The dispatch of _eval with ">= 1" for "== 1": every clause with a select
\* target goes down the single-target path.
Dispatch_at_least_one(er, seg) ==
    IF er.cnt_select_targets >= 1
    THEN _eval_single_select_target_element(er, seg)
    ELSE IF er.cnt_select_targets > 1
         THEN _eval_multiple_select_target_elements(er, seg)
         ELSE None

\* _eval, given the summary _get_indexes returned for a select_clause.
Dispatch(er, seg) ==
    IF er.cnt_select_targets = 1
    THEN _eval_single_select_target_element(er, seg)
    ELSE IF er.cnt_select_targets > 1
         THEN _eval_multiple_select_target_elements(er, seg)
         ELSE None

(***************************************************************************)
(* The linter around the rule.                                             *)
(***************************************************************************)
NoFix == [edit_type |-> "none", anchor |-> NotFound, edit |-> None]

RemoveAt(segs, i) ==
    [k \in 1..(Len(segs) - 1) |-> IF k <= i THEN segs[k] ELSE segs[k + 1]]

InsertBefore(segs, i, new) ==
    [k \in 1..(Len(segs) + 1) |->
        IF k <= i THEN segs[k] ELSE IF k = i + 1 THEN new ELSE segs[k - 1]]

\* Applying one LintFix to the children of its clause: "delete" removes the
\* anchor, "create" puts the new segment immediately before the anchor.
apply_fix(segs, fix) ==
    IF fix.edit_type = "delete"
    THEN RemoveAt(segs, fix.anchor)
    ELSE InsertBefore(segs, fix.anchor, fix.edit)

Init ==
    /\ segment \in [type : SegmentTypes, segments : SeqsUpTo(Children, MaxLen)]
    /\ eval_result = EmptyResult
    /\ result = None
    /\ pc = "crawl"
    /\ last_fix = NoFix
    /\ initial = segment
    /\ steps = 0

\* The crawler calls _eval on the node.
Eval ==
    /\ pc = "crawl"
    /\ IF is_type(segment, "select_clause")
       THEN /\ eval_result' = _get_indexes(segment)
            /\ result' = Dispatch(eval_result', segment)
       ELSE /\ eval_result' = EmptyResult
            /\ result' = None
    /\ pc' = "linted"
    /\ UNCHANGED <<segment, last_fix, initial, steps>>

\* The linter applies the fix of the returned LintResult and lints again.
ApplyFix ==
    /\ pc = "linted"
    /\ result.kind = "LintResult"
    /\ segment' = [segment EXCEPT !.segments = apply_fix(@, result.fixes[1])]
    /\ last_fix' = result.fixes[1]
    /\ steps' = steps + 1
    /\ pc' = "crawl"
    /\ UNCHANGED <<eval_result, result, initial>>

\* Something other than this rule edits the clause (another rule's fix, the
\* user): one child that is not a select target is added or removed.
ExternalEdit ==
    /\ pc = "linted"
    /\ \/ \E i \in 0..Len(segment.segments),
             new \in {c \in Children : c.type # "select_target_element"} :
             /\ Len(segment.segments) < MaxLen
             /\ segment' = [segment EXCEPT
                              !.segments = InsertBefore(@, i, new)]
       \/ \E i \in 0..(Len(segment.segments) - 1) :
             /\ ~is_type(At(segment.segments, i), "select_target_element")
             /\ segment' = [segment EXCEPT !.segments = RemoveAt(@, i)]
    /\ last_fix' = [edit_type |-> "external", anchor |-> NotFound, edit |-> None]
    /\ initial' = segment'
    /\ steps' = 0
    /\ pc' = "crawl"
    /\ UNCHANGED <<eval_result, result>>

Next == Eval \/ ApplyFix \/ ExternalEdit

Spec == Init /\ [][Next]_vars

\* The lint -> fix -> re-lint loop on its own, run until the rule is silent.
LoopNext == Eval \/ ApplyFix

LoopSpec == Init /\ [][LoopNext]_vars /\ WF_vars(LoopNext)

(***************************************************************************)
(* Vocabulary of the properties, stated on the children of a clause        *)
(* without reference to the scan.                                          *)
(***************************************************************************)
Indexes(segs) == 0..(Len(segs) - 1)

TargetIdxs(segs) ==
    {i \in Indexes(segs) : At(segs, i).type = "select_target_element"}

NewlineIdxs(segs) == {i \in Indexes(segs) : At(segs, i).type = "newline"}

WhitespaceIdxs(segs) ==
    {i \in Indexes(segs) : At(segs, i).type = "whitespace"}

SelectIdxs(segs) ==
    {i \in Indexes(segs) :
        At(segs, i).type = "keyword" /\ At(segs, i).name = "SELECT"}

Least(S) == CHOOSE x \in S : \A y \in S : x <= y

\* The first element of S, or -1 when S is empty.
FirstOf(S) == IF S = {} THEN NotFound ELSE Least(S)

HasWildcardChild(node) ==
    \E j \in 1..Len(node.segments) : node.segments[j] = "wildcard_expression"

\* A select clause with exactly one select target, which has no
\* wildcard_expression child.
SinglePlainTarget(seg) ==
    /\ seg.type = "select_clause"
    /\ Cardinality(TargetIdxs(seg.segments)) = 1
    /\ ~HasWildcardChild(At(seg.segments, Least(TargetIdxs(seg.segments))))

\* A select clause with exactly one select target, which has a
\* wildcard_expression child.
SingleWildcardTarget(seg) ==
    /\ seg.type = "select_clause"
    /\ Cardinality(TargetIdxs(seg.segments)) = 1
    /\ HasWildcardChild(At(seg.segments, Least(TargetIdxs(seg.segments))))

MultipleTargets(seg) ==
    /\ seg.type = "select_clause"
    /\ Cardinality(TargetIdxs(seg.segments)) >= 2

Linted == pc = "linted"

IsViolation == result.kind = "LintResult"

\* _eval returned a LintResult anchored at the clause with exactly one fix,
\* of the given type, on the child at index i.
OneFix(edit_type, i) ==
    /\ IsViolation
    /\ result.anchor = segment
    /\ Len(result.fixes) = 1
    /\ result.fixes[1].edit_type = edit_type
    /\ result.fixes[1].anchor = i

(***************************************************************************)
(* C1                                                                      *)
(***************************************************************************)
\* Some newline lies strictly between the first SELECT keyword and the target.
NewlineBetween(seg) ==
    /\ SelectIdxs(seg.segments) # {}
    /\ \E n \in NewlineIdxs(seg.segments) :
          /\ Least(SelectIdxs(seg.segments)) < n
          /\ n < Least(TargetIdxs(seg.segments))

\* The first newline of the clause lies strictly between the first SELECT
\* keyword and the target.
FirstNewlineBetween(seg) ==
    /\ SelectIdxs(seg.segments) # {}
    /\ NewlineIdxs(seg.segments) # {}
    /\ Least(SelectIdxs(seg.segments)) < Least(NewlineIdxs(seg.segments))
    /\ Least(NewlineIdxs(seg.segments)) < Least(TargetIdxs(seg.segments))

\* C1 as stated: on a select clause with exactly one select target, no
\* wildcard child and a newline strictly between the SELECT keyword and the
\* target, _eval returns a LintResult anchored at the clause whose fixes are
\* exactly one delete of a newline lying between the keyword and the target.
C1_AnyNewlineBetweenIsDeleted ==
    (Linted /\ SinglePlainTarget(segment) /\ NewlineBetween(segment))
        => /\ IsViolation
           /\ result.anchor = segment
           /\ Len(result.fixes) = 1
           /\ result.fixes[1].edit_type = "delete"
           /\ result.fixes[1].anchor \in NewlineIdxs(segment.segments)
           /\ Least(SelectIdxs(segment.segments)) < result.fixes[1].anchor
           /\ result.fixes[1].anchor < Least(TargetIdxs(segment.segments))

\* C1 amended: on a select clause with exactly one select target, no wildcard
\* child, and whose FIRST newline lies strictly between the first SELECT
\* keyword and the target, _eval returns a LintResult anchored at the clause
\* whose fixes are exactly one delete of that first newline.
C1_FirstNewlineBetweenIsDeleted ==
    (Linted /\ SinglePlainTarget(segment) /\ FirstNewlineBetween(segment))
        => /\ OneFix("delete", Least(NewlineIdxs(segment.segments)))
           /\ At(segment.segments, result.fixes[1].anchor) = NewlineSegment

C1_Witness ==
    /\ Linted
    /\ SinglePlainTarget(segment)
    /\ FirstNewlineBetween(segment)
    /\ Cardinality(NewlineIdxs(segment.segments)) = 2
    /\ IsViolation

(***************************************************************************)
(* C2                                                                      *)
(***************************************************************************)
\* The rule's delete fix has just been applied and the rule run again.
AfterDelete == Linted /\ last_fix.edit_type = "delete"

\* In the clause as it is after the delete, a newline is left between the
\* place of the deleted newline and the target.
NewlineLeftBeforeTarget ==
    \E n \in NewlineIdxs(segment.segments) :
        /\ last_fix.anchor <= n
        /\ n < Least(TargetIdxs(segment.segments))

\* C2 as stated: after the delete fix of a single-target, non-wildcard clause
\* is applied, evaluating the rule on the resulting clause returns None.
\* (Stated on the clauses that have their SELECT keyword, the ordinary ones.)
C2_OneDeleteIsEnough ==
    (/\ AfterDelete
     /\ SinglePlainTarget(segment)
     /\ SelectIdxs(segment.segments) # {})
        => result = None

\* C2 amended: after the delete fix of a single-target, non-wildcard clause
\* is applied, evaluating the rule on the resulting clause returns None
\* exactly when no further newline lies between the deleted newline and the
\* target; when one does, the rule returns one more delete, of the first such
\* newline.
C2_DeleteIsEnoughUnlessNewlineLeft ==
    (AfterDelete /\ SinglePlainTarget(segment))
        => IF NewlineLeftBeforeTarget
           THEN OneFix("delete", Least(NewlineIdxs(segment.segments)))
           ELSE result = None

C2_Witness ==
    /\ AfterDelete
    /\ SinglePlainTarget(segment)
    /\ NewlineIdxs(segment.segments) # {}
    /\ ~NewlineLeftBeforeTarget
    /\ result = None

(***************************************************************************)
(* C3                                                                      *)
(***************************************************************************)
\* C3: on a select clause with two or more select targets and no newline
\* among its children, _eval returns a LintResult anchored at the clause
\* whose fixes are exactly one "create" of a new newline segment, anchored at
\* the first select target in document order.
C3_InsertBeforeFirstTarget ==
    (Linted /\ MultipleTargets(segment) /\ NewlineIdxs(segment.segments) = {})
        => /\ OneFix("create", Least(TargetIdxs(segment.segments)))
           /\ result.fixes[1].edit.type = "newline"

C3_Witness ==
    /\ Linted
    /\ MultipleTargets(segment)
    /\ NewlineIdxs(segment.segments) = {}
    /\ SelectIdxs(segment.segments) # {}
    /\ IsViolation
    /\ result.fixes[1].anchor > 0

(***************************************************************************)
(* C4                                                                      *)
(***************************************************************************)
\* C4: after the "create" fix of a multi-target clause is applied (the new
\* newline put immediately before the first target), evaluating the rule on
\* the resulting clause returns None.
C4_InsertIsNotRepeated ==
    (Linted /\ last_fix.edit_type = "create") => result = None

C4_Witness ==
    /\ Linted
    /\ last_fix.edit_type = "create"
    /\ MultipleTargets(segment)
    /\ At(segment.segments, Least(TargetIdxs(segment.segments)) - 1)
           = NewlineSegment
    /\ result = None

(***************************************************************************)
(* C5                                                                      *)
(***************************************************************************)
\* C5: on a select clause with two or more select targets and at least one
\* newline anywhere among its children, _eval returns None.
C5_MultipleWithNewlinePasses ==
    (Linted /\ MultipleTargets(segment) /\ NewlineIdxs(segment.segments) # {})
        => result = None

\* The newline is after the last target, the clause as the crawler found it.
C5_Witness ==
    /\ Linted
    /\ last_fix.edit_type = "none"
    /\ MultipleTargets(segment)
    /\ NewlineIdxs(segment.segments) # {}
    /\ \A t \in TargetIdxs(segment.segments) :
          t < Least(NewlineIdxs(segment.segments))
    /\ result = None

C7_MalformedPasses ==
    (/\ Linted
     /\ segment.type = "select_clause"
     /\ \/ Len(segment.segments) = 0
        \/ TargetIdxs(segment.segments) = {}
        \/ SelectIdxs(segment.segments) = {})
        => result = None

(***************************************************************************)
(* C8                                                                      *)
(***************************************************************************)
\* C8: every _eval returns None or a LintResult with exactly one fix that
\* agrees with the summary: a delete only when cnt_select_targets = 1, of the
\* child at first_new_line_idx, which is a newline; a create only when
\* cnt_select_targets > 1 and first_new_line_idx is -1, anchored at the child
\* at first_select_target_idx, which is a select_target_element; and a node
\* that is not a select_clause gives None.
C8_ActionAgreesWithSummary ==
    Linted =>
        /\ segment.type # "select_clause" => result = None
        /\ \/ result = None
           \/ /\ IsViolation
              /\ Len(result.fixes) = 1
              /\ result.fixes[1].anchor \in Indexes(segment.segments)
              /\ \/ /\ result.fixes[1].edit_type = "delete"
                    /\ eval_result.cnt_select_targets = 1
                    /\ result.fixes[1].anchor = eval_result.first_new_line_idx
                    /\ At(segment.segments, result.fixes[1].anchor).type
                           = "newline"
                 \/ /\ result.fixes[1].edit_type = "create"
                    /\ eval_result.cnt_select_targets > 1
                    /\ eval_result.first_new_line_idx = NotFound
                    /\ result.fixes[1].anchor
                           = eval_result.first_select_target_idx
                    /\ At(segment.segments, result.fixes[1].anchor).type
                           = "select_target_element"

\* A delete of a newline that is not the second child of the clause.
C8_Witness ==
    /\ Linted
    /\ IsViolation
    /\ result.fixes[1].edit_type = "delete"
    /\ result.fixes[1].anchor >= 2
    /\ eval_result.select_idx = 0

(***************************************************************************)
(* C9                                                                      *)
(***************************************************************************)
\* The indexes of the set S in increasing order.
RECURSIVE InOrder(_)
InOrder(S) == IF S = {} THEN <<>> ELSE <<Least(S)>> \o InOrder(S \ {Least(S)})

\* C9: the summary _get_indexes returns holds, for each kind, the index of
\* the first child of that kind (first SELECT keyword, first newline, first
\* select target) or -1; first_whitespace_idx is the first whitespace child
\* after the first newline or -1, so when it is found so is the newline,
\* before it; cnt_select_targets is the length of select_targets; and
\* select_targets are the select targets in document order.
C9_SummaryIsFirstOccurrences ==
    (Linted /\ segment.type = "select_clause") =>
        LET segs == segment.segments
            er == eval_result
        IN /\ er.select_idx = FirstOf(SelectIdxs(segs))
           /\ er.first_new_line_idx = FirstOf(NewlineIdxs(segs))
           /\ er.first_select_target_idx = FirstOf(TargetIdxs(segs))
           /\ er.first_whitespace_idx =
                 FirstOf({w \in WhitespaceIdxs(segs) :
                             \E n \in NewlineIdxs(segs) : n < w})
           /\ er.first_whitespace_idx # NotFound
                 => /\ er.first_new_line_idx # NotFound
                    /\ er.first_whitespace_idx >= er.first_new_line_idx
           /\ er.cnt_select_targets = Len(er.select_targets)
           /\ er.select_targets = InOrder(TargetIdxs(segs))

\* Whitespace on both sides of the first newline, and a second SELECT.
C9_Witness ==
    /\ Linted
    /\ segment.type = "select_clause"
    /\ eval_result.first_whitespace_idx > eval_result.first_new_line_idx
    /\ Least(WhitespaceIdxs(segment.segments)) < eval_result.first_new_line_idx
    /\ eval_result.cnt_select_targets >= 1

(***************************************************************************)
(* C10                                                                     *)
(***************************************************************************)
\* The fixes the loop may need on the clause the crawler found: one on the
\* multi-target path, and on the single-target path as many as there are
\* newlines before the target.
Budget(seg) ==
    IF seg.type # "select_clause" THEN 0
    ELSE IF Cardinality(TargetIdxs(seg.segments)) > 1 THEN 1
    ELSE IF Cardinality(TargetIdxs(seg.segments)) = 1
         THEN Cardinality({n \in NewlineIdxs(seg.segments) :
                              n < Least(TargetIdxs(seg.segments))})
         ELSE 0

\* One step of the loop either removes exactly one newline or puts one
\* newline immediately before the first target, and changes no other child.
FixStep ==
    (pc = "linted" /\ pc' = "crawl") =>
        LET segs == segment.segments
            t == Least(TargetIdxs(segs))
        IN /\ segment'.type = segment.type
           /\ IF result.fixes[1].edit_type = "delete"
              THEN \E n \in NewlineIdxs(segs) :
                      segment'.segments =
                          SubSeq(segs, 1, n) \o SubSeq(segs, n + 2, Len(segs))
              ELSE segment'.segments =
                      SubSeq(segs, 1, t) \o <<NewlineSegment>>
                          \o SubSeq(segs, t + 1, Len(segs))

Silent == pc = "linted" /\ result = None

\* C10: the loop that evaluates the rule and applies the fix it proposes
\* reaches a clause on which the rule returns None, after at most one fix on
\* the multi-target path and at most as many fixes as there are newlines
\* before the target on the single-target path, each fix of the single-target
\* path removing exactly one newline and changing no other child.
C10_LoopConverges ==
    /\ [](steps <= Budget(initial))
    /\ [][FixStep]_vars
    /\ <>Silent

\* Two deletes were needed.
C10_Witness ==
    /\ Silent
    /\ steps = 2
    /\ Budget(initial) = 2

====
